---- MODULE Spec2Model ----
(***************************************************************************)
(* Model of aprilsam/common/thash_impl.h: a macro-generated open-addressing *)
(* hash table with linear probing, growth by rehash, tombstone-free        *)
(* deletion (the followers of a removed entry are taken out and put back)  *)
(* and an iterator that supports removal.                                  *)
(*                                                                         *)
(* The table functions are operators over a table value                    *)
(*   [entries |-> array, nentries |-> int, size |-> int]                   *)
(* (the struct with its entries array dereferenced).  The actions keep the *)
(* structs and the calloc'ed arrays apart (tab, mem), so that two tables   *)
(* sharing one array is a state the model can express.                     *)
(*                                                                         *)
(* A slot with valid = 0 is never read beyond its valid flag by any        *)
(* function of the file; the model keeps the key and value of such a slot  *)
(* at zero (what calloc and memset leave there) instead of the stale bytes *)
(* a removal leaves behind.                                                *)
(***************************************************************************)
EXTENDS Integers, Sequences, FiniteSets, TLC

VARIABLES
    mem,     \* the heap: address -> [live, cells]; cells is an entries array
    tab,     \* the TTYPENAME structs: handle -> [entries (address), nentries, size]
    iter,    \* the iterator struct: [hash (handle or NULL), last_entry]
    hsel,    \* which TKEYHASH the instantiation was compiled with
    last,    \* the last call: [op, hnd, ret, nentries, size], with the handle it
             \* was made on, its return code, and the table's nentries and size
             \* when it was made
    seen,    \* the (key, value) pairs iterator_next returned since iterator_init
    status,  \* "ok", or how the process ended: "assert" (abort), "hang" (endless
             \* loop), "trap" (a build that traps on signed overflow)
    made     \* the create_capacity call that made the table of handle 1:
             \* [capacity, nentries], its argument and the nentries it gave the
             \* table; NotTracked in the runs that do not keep track of it

vars == <<mem, tab, iter, hsel, last, seen, status, made>>

----------------------------------------------------------------------------
(* Bounds of the model *)

\* key identities put into a table created by create_capacity: one more than
\* an 8-slot array holds before put rehashes
MaxKeyId == 5
\* capacity hints given to create_capacity in Init: 0 .. MaxHint
MaxHint == 1
\* key identities put into the default table of create(): one more than a
\* 32-slot array holds before put rehashes
MaxDefaultKeyId == 17
\* capacities given to create_capacity where the run keeps track of the call:
\* 0 .. MaxCapacity, which gives arrays of 8, 16 and 32 slots (create() is
\* create_capacity(8)); one key more than that is put
MaxCapacity == 8

----------------------------------------------------------------------------
(* Program constants *)

\* when nentries/size is smaller than this, put rehashes
THASH_FACTOR_CRITICAL == 2
\* nentries/size aimed at when rehashing or allocating for a target capacity
THASH_FACTOR_REALLOC == 4

----------------------------------------------------------------------------
(* The instantiation: TKEYTYPE, TVALTYPE, TKEYHASH, TKEYEQUAL *)

\* A key is a struct of which TKEYEQUAL compares the id only: two keys with the
\* same id and different tags are equal keys that are different objects.
MkKey(i, t) == [id |-> i, tag |-> t]
ZeroKey == MkKey(0, 0)

TKEYEQUAL(pka, pkb) == pka.id = pkb.id

\* Three hash functions, each a function of the id alone (so consistent with
\* TKEYEQUAL), with uint32_t codes:
\*   1: every key collides on slot 6 of an 8-slot array (runs wrap around)
\*   2: codes with all the high bits set (2^31 - 1 - id); neighbouring slots,
\*      descending, no collision
\*   3: pairs of keys collide, the pairs are neighbours, from the last slot on
TKEYHASH(pk) ==
    CASE hsel = 1 -> 6 + 8 * pk.id
      [] hsel = 2 -> 2147483647 - pk.id
      [] OTHER    -> 7 + (pk.id \div 2)

\* the bits of a & b, one at a time
RECURSIVE BitAndBits(_, _)
BitAndBits(a, b) ==
    IF a = 0 \/ b = 0 THEN 0
    ELSE (a % 2) * (b % 2) + 2 * BitAndBits(a \div 2, b \div 2)

Pow2 == {2 ^ e : e \in 0 .. 30}

\* a & b on non-negative integers; when b is a mask of low bits (2^e - 1),
\* a & b is a modulo 2^e
BitAnd(a, b) ==
    IF (b + 1) \in Pow2 THEN a % (b + 1) ELSE BitAndBits(a, b)

----------------------------------------------------------------------------
(* int *)

\* int has 32 bits
INT_MAX == 2147483647
INT_MIN == (-INT_MAX) - 1

\* a + b overflows an int
AddOverflows(a, b) ==
    \/ a > 0 /\ b > INT_MAX - a
    \/ a < 0 /\ b < INT_MIN - a

\* a + b as two's complement addition computes it: modulo 2^32
AddWrap(a, b) ==
    IF a > 0 /\ b > INT_MAX - a THEN (a + INT_MIN) + (b + INT_MIN)
    ELSE IF a < 0 /\ b < INT_MIN - a THEN (a - INT_MIN) + (b - INT_MIN)
    ELSE a + b

\* a * b overflows an int, for a > 0 and b >= 0
MulOverflows(a, b) == b > INT_MAX \div a

\* a * m modulo 2^32 for 0 <= m < 2 * half, where a * half = 2^31
MulWrapOf(a, m, half) == IF m < half THEN a * m ELSE a * (m - 2 * half)

\* a * b as two's complement multiplication computes it (modulo 2^32), for a
\* a power of two >= 2 and b >= 0: the product depends on b modulo 2^32 / a,
\* and is negative from 2^31 / a on
MulWrap(a, b) ==
    MulWrapOf(a, b % (2 * ((INT_MAX \div a) + 1)), (INT_MAX \div a) + 1)

\* the greater of two ints
Max(a, b) == IF a < b THEN b ELSE a

----------------------------------------------------------------------------
(* struct entry, struct TTYPENAME *)

ZeroEntry == [valid |-> 0, key |-> ZeroKey, value |-> 0]

MkEntry(k, v) == [valid |-> 1, key |-> k, value |-> v]

\* calloc(nentries, sizeof(struct entry))
ZeroEntries(n) == [i \in 0 .. n - 1 |-> ZeroEntry]

\* create_capacity_loop with the doubling stopped one step early
RECURSIVE create_capacity_loop_early(_, _)
create_capacity_loop_early(nentries, wanted) ==
    IF nentries * 2 < wanted
    THEN create_capacity_loop_early(nentries * 2, wanted)
    ELSE nentries

\* while (nentries < _nentries) nentries *= 2; with int arithmetic that wraps.
\* The result is nentries when the loop ends, and -1 when it never does: a
\* doubling that overflows gives INT_MIN, the next one 0, and 0 stays 0.
RECURSIVE create_capacity_loop(_, _)
RECURSIVE create_capacity_loop_body(_, _, _)
create_capacity_loop(nentries, wanted) ==
    IF nentries < wanted
    THEN create_capacity_loop_body(nentries, AddWrap(nentries, nentries), wanted)
    ELSE nentries

\* nentries *= 2, doubled being the product
create_capacity_loop_body(nentries, doubled, wanted) ==
    IF doubled = nentries THEN -1 ELSE create_capacity_loop(doubled, wanted)

\* if ((nentries & (nentries - 1)) != 0) { nentries = 8; while ... }
create_capacity_pow2(wanted) ==
    IF BitAnd(wanted, wanted - 1) # 0
    THEN create_capacity_loop(8, wanted)
    ELSE wanted

\* create_capacity_nentries with a floor of 4 slots instead of 8
create_capacity_nentries_floor4(capacity) ==
    create_capacity_pow2(Max(MulWrap(THASH_FACTOR_REALLOC, capacity), 4))

\* create_capacity_nentries with 8 slots to the key instead of 4
create_capacity_nentries_factor8(capacity) ==
    create_capacity_pow2(Max(MulWrap(2 * THASH_FACTOR_REALLOC, capacity), 8))

\* the nentries create_capacity computes for a capacity (-1: it never returns)
create_capacity_nentries(capacity) ==
    create_capacity_pow2(Max(MulWrap(THASH_FACTOR_REALLOC, capacity), 8))

\* the doubling loop multiplies an nentries above INT_MAX / 2
RECURSIVE create_capacity_loop_overflows(_, _)
create_capacity_loop_overflows(nentries, wanted) ==
    IF nentries >= wanted THEN FALSE
    ELSE IF MulOverflows(2, nentries) THEN TRUE
    ELSE create_capacity_loop_overflows(nentries * 2, wanted)

\* the doubling loop is entered for _nentries = wanted, and overflows
create_capacity_pow2_overflows(wanted) ==
    /\ BitAnd(wanted, wanted - 1) # 0
    /\ create_capacity_loop_overflows(8, wanted)

\* create_capacity(capacity) executes a signed overflow, which is undefined:
\* in THASH_FACTOR_REALLOC*capacity, or in the doubling loop
create_capacity_overflows(capacity) ==
    \/ MulOverflows(THASH_FACTOR_REALLOC, capacity)
    \/ create_capacity_pow2_overflows(
           Max(MulWrap(THASH_FACTOR_REALLOC, capacity), 8))

\* assert((nentries & (nentries-1)) == 0) holds
create_capacity_assert(nentries) == BitAnd(nentries, nentries - 1) = 0

\* the two callocs: a table of nentries zeroed slots
create_capacity_calloc(nentries) ==
    [entries |-> ZeroEntries(nentries), nentries |-> nentries, size |-> 0]

\* the table create_capacity returns, for a capacity it returns for
create_capacity(capacity) ==
    create_capacity_calloc(create_capacity_nentries(capacity))

create == create_capacity(8)

size(hash) == hash.size

\* clear that resets the slots and leaves size as it was
clear_keepsize(hash) ==
    [hash EXCEPT !.entries = ZeroEntries(hash.nentries)]

clear(hash) ==
    [hash EXCEPT !.entries = ZeroEntries(hash.nentries), !.size = 0]

----------------------------------------------------------------------------
(* get_volatile, get *)

\* The probe loop of get_volatile.  The result is the slot the loop stops at:
\* a valid slot holding an equal key, or an invalid slot; -1 when the loop has
\* gone once round an array without either (it never ends).
RECURSIVE get_volatile_loop(_, _, _, _)
get_volatile_loop(hash, key, entry_idx, steps) ==
    IF steps > hash.nentries THEN -1
    ELSE IF hash.entries[entry_idx].valid = 0 THEN entry_idx
    ELSE IF TKEYEQUAL(key, hash.entries[entry_idx].key) THEN entry_idx
    ELSE get_volatile_loop(hash, key,
                           BitAnd(entry_idx + 1, hash.nentries - 1), steps + 1)

\* [ret, value]: value is the index of the slot the returned pointer refers to
get_volatile(hash, key) ==
    LET code == TKEYHASH(key)
        i == get_volatile_loop(hash, key, BitAnd(code, hash.nentries - 1), 0)
    IN  IF i < 0 THEN [ret |-> 0, value |-> -1, err |-> "hang"]
        ELSE IF hash.entries[i].valid = 1
        THEN [ret |-> 1, value |-> i, err |-> "ok"]
        ELSE [ret |-> 0, value |-> -1, err |-> "ok"]

\* get_loop that goes on over invalid slots, until it finds the key
RECURSIVE get_loop_nostop(_, _, _, _)
get_loop_nostop(hash, key, entry_idx, steps) ==
    IF steps > hash.nentries THEN -1
    ELSE IF hash.entries[entry_idx].valid = 1
            /\ TKEYEQUAL(key, hash.entries[entry_idx].key) THEN entry_idx
    ELSE get_loop_nostop(hash, key, BitAnd(entry_idx + 1, hash.nentries - 1),
                         steps + 1)

RECURSIVE get_loop(_, _, _, _)
get_loop(hash, key, entry_idx, steps) ==
    IF steps > hash.nentries THEN -1
    ELSE IF hash.entries[entry_idx].valid = 0 THEN entry_idx
    ELSE IF TKEYEQUAL(key, hash.entries[entry_idx].key) THEN entry_idx
    ELSE get_loop(hash, key, BitAnd(entry_idx + 1, hash.nentries - 1), steps + 1)

\* [ret, value]: value is the copy written through the value pointer (left as
\* the caller had it, 0 here, when the key is not found)
get(hash, key) ==
    LET code == TKEYHASH(key)
        i == get_loop(hash, key, BitAnd(code, hash.nentries - 1), 0)
    IN  IF i < 0 THEN [ret |-> 0, value |-> 0, err |-> "hang"]
        ELSE IF hash.entries[i].valid = 1
        THEN [ret |-> 1, value |-> hash.entries[i].value, err |-> "ok"]
        ELSE [ret |-> 0, value |-> 0, err |-> "ok"]

----------------------------------------------------------------------------
(* put *)

\* what a call leaves when it did not return: the table as it was
Failed(hash, how) ==
    [hash |-> hash, ret |-> 0, oldkey |-> ZeroKey, oldvalue |-> 0,
     err |-> how, rehashed |-> FALSE, reallocs |-> 0]

\* put_loop that never compares keys: it stops at the first invalid slot
RECURSIVE put_loop_nocompare(_, _, _, _)
put_loop_nocompare(hash, key, entry_idx, steps) ==
    IF steps > hash.nentries THEN -1
    ELSE IF hash.entries[entry_idx].valid = 0 THEN entry_idx
    ELSE put_loop_nocompare(hash, key, BitAnd(entry_idx + 1, hash.nentries - 1),
                            steps + 1)

RECURSIVE put_loop(_, _, _, _)
put_loop(hash, key, entry_idx, steps) ==
    IF steps > hash.nentries THEN -1
    ELSE IF hash.entries[entry_idx].valid = 0 THEN entry_idx
    ELSE IF TKEYEQUAL(key, hash.entries[entry_idx].key) THEN entry_idx
    ELSE put_loop(hash, key, BitAnd(entry_idx + 1, hash.nentries - 1), steps + 1)

RECURSIVE put(_, _, _)
RECURSIVE put_rehash(_, _, _)
RECURSIVE put_grow(_, _)

\* put without the rehash
put_norehash(hash, key, value) ==
    LET code == TKEYHASH(key)
        i == put_loop(hash, key, BitAnd(code, hash.nentries - 1), 0)
    IN  IF i < 0 THEN Failed(hash, "hang")
        ELSE IF hash.entries[i].valid = 1
        THEN [hash |-> [hash EXCEPT !.entries[i].key = key,
                                    !.entries[i].value = value],
              ret |-> 1,
              oldkey |-> hash.entries[i].key,
              oldvalue |-> hash.entries[i].value,
              err |-> "ok", rehashed |-> FALSE, reallocs |-> 0]
        ELSE [hash |-> [hash EXCEPT !.entries[i] = MkEntry(key, value),
                                    !.size = @ + 1],
              ret |-> 0, oldkey |-> ZeroKey, oldvalue |-> 0,
              err |-> "ok", rehashed |-> FALSE, reallocs |-> 0]

\* put that rehashes already when size reaches nentries / 2
put_athalf(hash, key, value) ==
    LET code == TKEYHASH(key)
        i == put_loop(hash, key, BitAnd(code, hash.nentries - 1), 0)
    IN  IF i < 0 THEN Failed(hash, "hang")
        ELSE IF hash.entries[i].valid = 1
        THEN [hash |-> [hash EXCEPT !.entries[i].key = key,
                                    !.entries[i].value = value],
              ret |-> 1,
              oldkey |-> hash.entries[i].key,
              oldvalue |-> hash.entries[i].value,
              err |-> "ok", rehashed |-> FALSE, reallocs |-> 0]
        ELSE LET h1 == [hash EXCEPT !.entries[i] = MkEntry(key, value),
                                    !.size = @ + 1]
             IN  IF h1.nentries <= THASH_FACTOR_CRITICAL * h1.size
                 THEN LET r == put_rehash(h1, create_capacity(h1.size + 1), 0)
                      IN  IF r.err # "ok" THEN Failed(h1, r.err)
                          ELSE [hash |-> r.hash, ret |-> 0, oldkey |-> ZeroKey,
                                oldvalue |-> 0, err |-> "ok", rehashed |-> TRUE,
                                reallocs |-> 1 + r.reallocs]
                 ELSE [hash |-> h1, ret |-> 0, oldkey |-> ZeroKey,
                       oldvalue |-> 0, err |-> "ok", rehashed |-> FALSE,
                       reallocs |-> 0]

\* "rehash!": create_capacity(hash->size + 1) has computed nentries; its
\* assert, the new table, the rehash loop and the switch
put_grow(h1, nentries) ==
    IF ~create_capacity_assert(nentries) THEN Failed(h1, "assert")
    ELSE LET r == put_rehash(h1, create_capacity_calloc(nentries), 0)
         IN  IF r.err # "ok" THEN Failed(h1, r.err)
             ELSE [hash |-> r.hash, ret |-> 0, oldkey |-> ZeroKey,
                   oldvalue |-> 0, err |-> "ok", rehashed |-> TRUE,
                   reallocs |-> 1 + r.reallocs]

\* The whole of put.  [hash, ret, oldkey, oldvalue, err, rehashed, reallocs]:
\* the table after the call, the return code, what was written through oldkey
\* and oldvalue (zero when nothing was), "ok" or how the call failed to
\* return, whether the entries array was reallocated, and how many arrays
\* create_capacity allocated during the call, the puts of the rehash loop
\* included.
put(hash, key, value) ==
    LET code == TKEYHASH(key)
        i == put_loop(hash, key, BitAnd(code, hash.nentries - 1), 0)
    IN  IF i < 0 THEN Failed(hash, "hang")
        ELSE IF hash.entries[i].valid = 1
        THEN [hash |-> [hash EXCEPT !.entries[i].key = key,
                                    !.entries[i].value = value],
              ret |-> 1,
              oldkey |-> hash.entries[i].key,
              oldvalue |-> hash.entries[i].value,
              err |-> "ok", rehashed |-> FALSE, reallocs |-> 0]
        ELSE LET h1 == [hash EXCEPT !.entries[i] = MkEntry(key, value),
                                    !.size = @ + 1]
             IN  IF h1.nentries < THASH_FACTOR_CRITICAL * h1.size
                 THEN put_grow(h1, create_capacity_nentries(h1.size + 1))
                 ELSE [hash |-> h1, ret |-> 0, oldkey |-> ZeroKey,
                       oldvalue |-> 0, err |-> "ok", rehashed |-> FALSE,
                       reallocs |-> 0]

\* put_rehash with the loop started at slot 1
RECURSIVE put_rehash_skip0(_, _, _)
put_rehash_skip0(hash, newhash, entry_idx) ==
    IF entry_idx >= hash.nentries
    THEN [hash |-> newhash, err |-> "ok", reallocs |-> 0]
    ELSE IF entry_idx > 0 /\ hash.entries[entry_idx].valid = 1
    THEN LET r == put(newhash, hash.entries[entry_idx].key,
                      hash.entries[entry_idx].value)
         IN  IF r.err # "ok"
             THEN [hash |-> newhash, err |-> r.err, reallocs |-> r.reallocs]
             ELSE IF r.ret # 0
             THEN [hash |-> newhash, err |-> "assert", reallocs |-> r.reallocs]
             ELSE LET rest == put_rehash_skip0(hash, r.hash, entry_idx + 1)
                  IN  [rest EXCEPT !.reallocs = @ + r.reallocs]
    ELSE put_rehash_skip0(hash, newhash, entry_idx + 1)

\* the rehash loop of put: every valid entry of hash from entry_idx on is put
\* into newhash; [hash, err, reallocs]: the table hash becomes after the
\* switch, and the arrays the puts of the loop allocated
put_rehash(hash, newhash, entry_idx) ==
    IF entry_idx >= hash.nentries
    THEN [hash |-> newhash, err |-> "ok", reallocs |-> 0]
    ELSE IF hash.entries[entry_idx].valid = 1
    THEN LET r == put(newhash, hash.entries[entry_idx].key,
                      hash.entries[entry_idx].value)
         IN  IF r.err # "ok"
             THEN [hash |-> newhash, err |-> r.err, reallocs |-> r.reallocs]
             ELSE IF r.ret # 0
             THEN [hash |-> newhash, err |-> "assert", reallocs |-> r.reallocs]
             ELSE LET rest == put_rehash(hash, r.hash, entry_idx + 1)
                  IN  [rest EXCEPT !.reallocs = @ + r.reallocs]
    ELSE put_rehash(hash, newhash, entry_idx + 1)

----------------------------------------------------------------------------
(* remove *)

RECURSIVE remove_loop(_, _, _, _)
remove_loop(hash, key, entry_idx, steps) ==
    IF steps > hash.nentries THEN -1
    ELSE IF hash.entries[entry_idx].valid = 0 THEN entry_idx
    ELSE IF TKEYEQUAL(key, hash.entries[entry_idx].key) THEN entry_idx
    ELSE remove_loop(hash, key, BitAnd(entry_idx + 1, hash.nentries - 1), steps + 1)

\* remove_reput with a walk that stops at the end of the array instead of
\* going on from slot 0
RECURSIVE remove_reput_nowrap(_, _, _, _)
remove_reput_nowrap(hash, entry_idx, steps, rehashed) ==
    IF steps > hash.nentries THEN [hash |-> hash, err |-> "hang", rehashed |-> rehashed, steps |-> steps]
    ELSE IF entry_idx = 0 \/ hash.entries[entry_idx].valid = 0
    THEN [hash |-> hash, err |-> "ok", rehashed |-> rehashed, steps |-> steps]
    ELSE LET key == hash.entries[entry_idx].key
             value == hash.entries[entry_idx].value
             h1 == [hash EXCEPT !.entries[entry_idx] = ZeroEntry, !.size = @ - 1]
             r == put(h1, key, value)
         IN  IF r.err # "ok" THEN [hash |-> h1, err |-> r.err, rehashed |-> rehashed, steps |-> steps]
             ELSE IF r.ret # 0 THEN [hash |-> r.hash, err |-> "assert", rehashed |-> rehashed, steps |-> steps]
             ELSE remove_reput_nowrap(r.hash,
                                      BitAnd(entry_idx + 1, r.hash.nentries - 1),
                                      steps + 1, rehashed \/ r.rehashed)

\* remove_reput that leaves the valid flag of the entry it puts back
RECURSIVE remove_reput_keepvalid(_, _, _, _)
remove_reput_keepvalid(hash, entry_idx, steps, rehashed) ==
    IF steps > hash.nentries THEN [hash |-> hash, err |-> "hang", rehashed |-> rehashed, steps |-> steps]
    ELSE IF hash.entries[entry_idx].valid = 0
    THEN [hash |-> hash, err |-> "ok", rehashed |-> rehashed, steps |-> steps]
    ELSE LET key == hash.entries[entry_idx].key
             value == hash.entries[entry_idx].value
             h1 == [hash EXCEPT !.size = @ - 1]
             r == put(h1, key, value)
         IN  IF r.err # "ok" THEN [hash |-> h1, err |-> r.err, rehashed |-> rehashed, steps |-> steps]
             ELSE IF r.ret # 0 THEN [hash |-> r.hash, err |-> "assert", rehashed |-> rehashed, steps |-> steps]
             ELSE remove_reput_keepvalid(r.hash, BitAnd(entry_idx + 1, r.hash.nentries - 1),
                               steps + 1, rehashed \/ r.rehashed)

\* remove_reput without the size-- for the entry it puts back
RECURSIVE remove_reput_nodec(_, _, _, _)
remove_reput_nodec(hash, entry_idx, steps, rehashed) ==
    IF steps > hash.nentries THEN [hash |-> hash, err |-> "hang", rehashed |-> rehashed, steps |-> steps]
    ELSE IF hash.entries[entry_idx].valid = 0
    THEN [hash |-> hash, err |-> "ok", rehashed |-> rehashed, steps |-> steps]
    ELSE LET key == hash.entries[entry_idx].key
             value == hash.entries[entry_idx].value
             h1 == [hash EXCEPT !.entries[entry_idx] = ZeroEntry]
             r == put(h1, key, value)
         IN  IF r.err # "ok" THEN [hash |-> h1, err |-> r.err, rehashed |-> rehashed, steps |-> steps]
             ELSE IF r.ret # 0 THEN [hash |-> r.hash, err |-> "assert", rehashed |-> rehashed, steps |-> steps]
             ELSE remove_reput_nodec(r.hash, BitAnd(entry_idx + 1, r.hash.nentries - 1),
                               steps + 1, rehashed \/ r.rehashed)

\* "re-put following entries": the inner loop of remove, from entry_idx on.
\* [hash, err, rehashed, steps]; steps is the number of followers the walk
\* has taken out and put back
RECURSIVE remove_reput(_, _, _, _)
remove_reput(hash, entry_idx, steps, rehashed) ==
    IF steps > hash.nentries THEN [hash |-> hash, err |-> "hang", rehashed |-> rehashed, steps |-> steps]
    ELSE IF hash.entries[entry_idx].valid = 0
    THEN [hash |-> hash, err |-> "ok", rehashed |-> rehashed, steps |-> steps]
    ELSE LET key == hash.entries[entry_idx].key
             value == hash.entries[entry_idx].value
             h1 == [hash EXCEPT !.entries[entry_idx] = ZeroEntry, !.size = @ - 1]
             r == put(h1, key, value)
         IN  IF r.err # "ok" THEN [hash |-> h1, err |-> r.err, rehashed |-> rehashed, steps |-> steps]
             ELSE IF r.ret # 0 THEN [hash |-> r.hash, err |-> "assert", rehashed |-> rehashed, steps |-> steps]
             ELSE remove_reput(r.hash, BitAnd(entry_idx + 1, r.hash.nentries - 1),
                               steps + 1, rehashed \/ r.rehashed)

\* remove that marks the slot invalid and leaves the entries after it alone
remove_noreput(hash, key) ==
    LET code == TKEYHASH(key)
        i == remove_loop(hash, key, BitAnd(code, hash.nentries - 1), 0)
    IN  IF i < 0 THEN Failed(hash, "hang")
        ELSE IF hash.entries[i].valid = 1
        THEN [hash |-> [hash EXCEPT !.entries[i] = ZeroEntry, !.size = @ - 1],
              ret |-> 1,
              oldkey |-> hash.entries[i].key,
              oldvalue |-> hash.entries[i].value,
              err |-> "ok", rehashed |-> FALSE, walked |-> 0]
        ELSE [hash |-> hash, ret |-> 0, oldkey |-> ZeroKey, oldvalue |-> 0,
              err |-> "ok", rehashed |-> FALSE, walked |-> 0]

\* remove that counts the key out before it has found it
remove_missdec(hash, key) ==
    LET code == TKEYHASH(key)
        i == remove_loop(hash, key, BitAnd(code, hash.nentries - 1), 0)
        h0 == [hash EXCEPT !.size = @ - 1]
    IN  IF i < 0 THEN Failed(hash, "hang")
        ELSE IF hash.entries[i].valid = 1
        THEN LET h1 == [h0 EXCEPT !.entries[i] = ZeroEntry]
                 r == remove_reput(h1, BitAnd(i + 1, h1.nentries - 1), 0, FALSE)
             IN  [hash |-> r.hash, ret |-> 1,
                  oldkey |-> hash.entries[i].key,
                  oldvalue |-> hash.entries[i].value,
                  err |-> r.err, rehashed |-> r.rehashed, walked |-> r.steps]
        ELSE [hash |-> h0, ret |-> 0, oldkey |-> ZeroKey, oldvalue |-> 0,
              err |-> "ok", rehashed |-> FALSE, walked |-> 0]

remove(hash, key) ==
    LET code == TKEYHASH(key)
        i == remove_loop(hash, key, BitAnd(code, hash.nentries - 1), 0)
    IN  IF i < 0 THEN Failed(hash, "hang")
        ELSE IF hash.entries[i].valid = 1
        THEN LET h1 == [hash EXCEPT !.entries[i] = ZeroEntry, !.size = @ - 1]
                 r == remove_reput(h1, BitAnd(i + 1, h1.nentries - 1), 0, FALSE)
             IN  [hash |-> r.hash, ret |-> 1,
                  oldkey |-> hash.entries[i].key,
                  oldvalue |-> hash.entries[i].value,
                  err |-> r.err, rehashed |-> r.rehashed, walked |-> r.steps]
        ELSE [hash |-> hash, ret |-> 0, oldkey |-> ZeroKey, oldvalue |-> 0,
              err |-> "ok", rehashed |-> FALSE, walked |-> 0]

----------------------------------------------------------------------------
(* copy *)

RECURSIVE copy_loop(_, _, _)
copy_loop(hash, newhash, entry_idx) ==
    IF entry_idx >= hash.nentries THEN [hash |-> newhash, err |-> "ok"]
    ELSE IF hash.entries[entry_idx].valid = 1
    THEN LET r == put(newhash, hash.entries[entry_idx].key,
                      hash.entries[entry_idx].value)
         IN  IF r.err # "ok" THEN [hash |-> newhash, err |-> r.err]
             ELSE IF r.ret # 0 THEN [hash |-> newhash, err |-> "assert"]
             ELSE copy_loop(hash, r.hash, entry_idx + 1)
    ELSE copy_loop(hash, newhash, entry_idx + 1)

\* [hash, err]: the new table
copy_new(hash, nentries) ==
    IF ~create_capacity_assert(nentries)
    THEN [hash |-> hash, err |-> "assert"]
    ELSE copy_loop(hash, create_capacity_calloc(nentries), 0)

copy(hash) == copy_new(hash, create_capacity_nentries(hash.size))

----------------------------------------------------------------------------
(* the iterator *)

NULL == 0

\* iterator_init with the cursor on slot 0 instead of before it
iterator_init_zero(hash) == [hash |-> hash, last_entry |-> 0]

\* iterator_init(hash, iter); hash is the handle of the table
iterator_init(hash) == [hash |-> hash, last_entry |-> -1]

\* [iter, ret, outkey, outval]; hash is the table it.hash points to
RECURSIVE iterator_next(_, _)
iterator_next(hash, it) ==
    IF it.last_entry + 1 >= hash.nentries
    THEN [iter |-> it, ret |-> 0, outkey |-> ZeroKey, outval |-> 0]
    ELSE LET it1 == [it EXCEPT !.last_entry = @ + 1]
         IN  IF hash.entries[it1.last_entry].valid = 1
             THEN [iter |-> it1, ret |-> 1,
                   outkey |-> hash.entries[it1.last_entry].key,
                   outval |-> hash.entries[it1.last_entry].value]
             ELSE iterator_next(hash, it1)

\* iterator_remove_loop with a walk that stops at the end of the array
RECURSIVE iterator_remove_loop_nowrap(_, _, _, _)
iterator_remove_loop_nowrap(hash, entry_idx, steps, rehashed) ==
    IF steps > hash.nentries THEN [hash |-> hash, err |-> "hang", rehashed |-> rehashed, steps |-> steps]
    ELSE IF entry_idx = 0 \/ hash.entries[entry_idx].valid = 0
    THEN [hash |-> hash, err |-> "ok", rehashed |-> rehashed, steps |-> steps]
    ELSE LET key == hash.entries[entry_idx].key
             value == hash.entries[entry_idx].value
             h1 == [hash EXCEPT !.entries[entry_idx] = ZeroEntry, !.size = @ - 1]
             r == put(h1, key, value)
         IN  IF r.err # "ok" THEN [hash |-> h1, err |-> r.err, rehashed |-> rehashed, steps |-> steps]
             ELSE IF r.ret # 0 THEN [hash |-> r.hash, err |-> "assert", rehashed |-> rehashed, steps |-> steps]
             ELSE iterator_remove_loop_nowrap(r.hash,
                                       BitAnd(entry_idx + 1, r.hash.nentries - 1),
                                       steps + 1, rehashed \/ r.rehashed)

\* the reinsertion loop of iterator_remove, from entry_idx on
RECURSIVE iterator_remove_loop(_, _, _, _)
iterator_remove_loop(hash, entry_idx, steps, rehashed) ==
    IF steps > hash.nentries THEN [hash |-> hash, err |-> "hang", rehashed |-> rehashed, steps |-> steps]
    ELSE IF hash.entries[entry_idx].valid = 0
    THEN [hash |-> hash, err |-> "ok", rehashed |-> rehashed, steps |-> steps]
    ELSE LET key == hash.entries[entry_idx].key
             value == hash.entries[entry_idx].value
             h1 == [hash EXCEPT !.entries[entry_idx] = ZeroEntry, !.size = @ - 1]
             r == put(h1, key, value)
         IN  IF r.err # "ok" THEN [hash |-> h1, err |-> r.err, rehashed |-> rehashed, steps |-> steps]
             ELSE IF r.ret # 0 THEN [hash |-> r.hash, err |-> "assert", rehashed |-> rehashed, steps |-> steps]
             ELSE iterator_remove_loop(r.hash,
                                       BitAnd(entry_idx + 1, r.hash.nentries - 1),
                                       steps + 1, rehashed \/ r.rehashed)

\* iterator_remove without the size-- after the loop
iterator_remove_nodec(hash, it) ==
    LET h1 == [hash EXCEPT !.entries[it.last_entry] = ZeroEntry]
    IN  iterator_remove_loop(h1, BitAnd(it.last_entry + 1, h1.nentries - 1),
                             0, FALSE)

\* [hash, err, rehashed, steps]; hash is the table it.hash points to, and
\* it.last_entry is an index of its array
iterator_remove(hash, it) ==
    LET h1 == [hash EXCEPT !.entries[it.last_entry] = ZeroEntry]
        r == iterator_remove_loop(h1, BitAnd(it.last_entry + 1, h1.nentries - 1),
                                  0, FALSE)
    IN  IF r.err # "ok" THEN r
        ELSE [hash |-> [r.hash EXCEPT !.size = @ - 1], err |-> "ok",
              rehashed |-> r.rehashed, steps |-> r.steps]

----------------------------------------------------------------------------
(* The heap and the handles *)

\* addresses of entries arrays: two tables and the array a rehash allocates
\* before it frees the old one
Addr == 1 .. 3

\* handle 1 is the table made by create or create_capacity, handle 2 the table
\* made by copy
Handles == {1, 2}

FreeBlock == [live |-> FALSE, cells |-> <<>>]

NoTable == [entries |-> NULL, nentries |-> 0, size |-> 0]

\* calloc returns some block that is not live; which one does not matter to
\* any function of the file, and the model takes the lowest
Alloc(m) == CHOOSE a \in Addr : ~m[a].live /\ \A b \in Addr : b < a => m[b].live

\* the table a handle points to, with its array
Deref(p) ==
    [entries |-> mem[tab[p].entries].cells,
     nentries |-> tab[p].nentries,
     size |-> tab[p].size]

IsTable(p) == tab[p].entries # NULL

\* The heap after a call left table value h behind handle p.  A rehash has
\* calloc'ed the new array while the old one was live, and freed the old one
\* (the "switch-a-roo" and destroy(newhash) of put); otherwise the array was
\* written in place.
MemAfter(p, h, rehashed) ==
    IF rehashed
    THEN [mem EXCEPT ![Alloc(mem)] = [live |-> TRUE, cells |-> h.entries],
                     ![tab[p].entries] = FreeBlock]
    ELSE [mem EXCEPT ![tab[p].entries].cells = h.entries]

TabAfter(p, h, rehashed) ==
    [tab EXCEPT ![p] = [entries |-> IF rehashed THEN Alloc(mem) ELSE @.entries,
                        nentries |-> h.nentries,
                        size |-> h.size]]

----------------------------------------------------------------------------
(* Inputs *)

\* the keys with ids 1 .. n
PlainKeys(n) == {MkKey(i, 0) : i \in 1 .. n}

\* and a second key object equal to the key with id 1
Keys == PlainKeys(MaxKeyId) \cup {MkKey(1, 1)}

DefaultKeys == PlainKeys(MaxDefaultKeyId) \cup {MkKey(1, 1)}

\* Each key is stored with a value of its own, so that a value that ends up
\* under another key shows; the keys with ids 1 and 2 are stored with either of
\* two values.
ValueOf(k, n) == 10 * k.id + n
Values(k) == IF k.id \in {1, 2} THEN {ValueOf(k, 1), ValueOf(k, 2)}
             ELSE {ValueOf(k, 1)}

HashSel == {1, 2, 3}

\* capacities for which create_capacity overflows an int: 2^28 + 1 (the
\* doubling loop overflows), 2^29 (4 * capacity overflows, and wraps to
\* INT_MIN), 2^30 + 3 (wraps to 12), INT_MAX (wraps to -4).  The capacities
\* in between, for which create_capacity returns arrays of 64 to 2^30 slots,
\* are not among the inputs.
BigCapacities == {268435457, 536870912, 1073741827, INT_MAX}

Capacities == (0 .. MaxCapacity) \cup BigCapacities

CapacityKeys == PlainKeys(MaxCapacity + 1)

----------------------------------------------------------------------------
(* Initial states *)

NoIter == [hash |-> NULL, last_entry |-> -1]

NotTracked == [capacity |-> -1, nentries |-> -1]

Called(op, p, ret) ==
    [op |-> op, hnd |-> p, ret |-> ret,
     nentries |-> tab[p].nentries, size |-> tab[p].size]

InitWith(h) ==
    /\ mem = [a \in Addr |-> IF a = 1 THEN [live |-> TRUE, cells |-> h.entries]
                             ELSE FreeBlock]
    /\ tab = [p \in Handles |-> IF p = 1
                                THEN [entries |-> 1, nentries |-> h.nentries,
                                      size |-> h.size]
                                ELSE NoTable]
    /\ iter = NoIter
    /\ hsel \in HashSel
    /\ last = [op |-> "create", hnd |-> 1, ret |-> 0, nentries |-> 0, size |-> 0]
    /\ seen = <<>>
    /\ status = "ok"
    /\ made = NotTracked

\* hash = create_capacity(c)
Init == \E c \in 0 .. MaxHint : InitWith(create_capacity(c))

\* hash = create()
InitDefault == InitWith(create)

\* before the table is made
InitNone ==
    /\ mem = [a \in Addr |-> FreeBlock]
    /\ tab = [p \in Handles |-> NoTable]
    /\ iter = NoIter
    /\ hsel \in HashSel
    /\ last = [op |-> "none", hnd |-> 1, ret |-> 0, nentries |-> 0, size |-> 0]
    /\ seen = <<>>
    /\ status = "ok"
    /\ made = NotTracked

----------------------------------------------------------------------------
(* Calls *)

\* a call that did not return ends the process
Ends(how) ==
    /\ status' = how
    /\ UNCHANGED <<mem, tab, iter, hsel, last, seen, made>>

\* hash = create_capacity(c): handle 1 becomes the new table.  A call that
\* overflows an int is undefined: a build that traps on signed overflow ends
\* the process there, a build that wraps goes on with the wrapped value.
\* CreateCapacityWraps is the call in the build that wraps, nentries being
\* what its arithmetic gives (negative: the doubling loop never ends).
CreateCapacityWraps(c, nentries) ==
    IF nentries < 0 THEN Ends("hang")
    ELSE IF ~create_capacity_assert(nentries) THEN Ends("assert")
    ELSE /\ mem' = [mem EXCEPT ![Alloc(mem)] =
                        [live |-> TRUE,
                         cells |-> create_capacity_calloc(nentries).entries]]
         /\ tab' = [tab EXCEPT ![1] = [entries |-> Alloc(mem),
                                       nentries |-> nentries,
                                       size |-> 0]]
         /\ made' = [capacity |-> c, nentries |-> nentries]
         /\ last' = Called("create_capacity", 1, 0)
         /\ UNCHANGED <<iter, hsel, seen, status>>

CreateCapacity(c) ==
    /\ status = "ok"
    /\ ~IsTable(1)
    /\ \/ /\ create_capacity_overflows(c)
          /\ Ends("trap")
       \/ CreateCapacityWraps(c, create_capacity_nentries(c))

\* get(hash, &k, &value) on the table of handle p
Get(p, k) ==
    /\ status = "ok"
    /\ IsTable(p)
    /\ LET r == get(Deref(p), k)
       IN  IF r.err # "ok" THEN Ends(r.err)
           ELSE /\ last' = Called("get", p, r.ret)
                /\ UNCHANGED <<mem, tab, iter, hsel, seen, status, made>>

\* put(hash, &k, &v, &oldkey, &oldvalue) on the table of handle p
Put(p, k, v) ==
    /\ status = "ok"
    /\ IsTable(p)
    /\ LET r == put(Deref(p), k, v)
       IN  IF r.err # "ok" THEN Ends(r.err)
           ELSE /\ mem' = MemAfter(p, r.hash, r.rehashed)
                /\ tab' = TabAfter(p, r.hash, r.rehashed)
                /\ last' = Called("put", p, r.ret)
                /\ UNCHANGED <<iter, hsel, seen, status, made>>

\* remove(hash, &k, &oldkey, &oldvalue) on the table of handle p
Remove(p, k) ==
    /\ status = "ok"
    /\ IsTable(p)
    /\ LET r == remove(Deref(p), k)
       IN  IF r.err # "ok" THEN Ends(r.err)
           ELSE /\ mem' = MemAfter(p, r.hash, r.rehashed)
                /\ tab' = TabAfter(p, r.hash, r.rehashed)
                /\ last' = Called("remove", p, r.ret)
                /\ UNCHANGED <<iter, hsel, seen, status, made>>

\* clear(hash) on the table of handle p
Clear(p) ==
    /\ status = "ok"
    /\ IsTable(p)
    /\ LET h == clear(Deref(p))
       IN  /\ mem' = MemAfter(p, h, FALSE)
           /\ tab' = TabAfter(p, h, FALSE)
    /\ last' = Called("clear", p, 0)
    /\ UNCHANGED <<iter, hsel, seen, status, made>>

\* Copy as a copy of the struct: the new table shares the entries array
CopyShallow ==
    /\ status = "ok"
    /\ IsTable(1)
    /\ ~IsTable(2)
    /\ tab' = [tab EXCEPT ![2] = tab[1]]
    /\ last' = Called("copy", 1, 0)
    /\ UNCHANGED <<mem, iter, hsel, seen, status, made>>

\* newhash = copy(hash): handle 2 becomes the copy of the table of handle 1
Copy ==
    /\ status = "ok"
    /\ IsTable(1)
    /\ ~IsTable(2)
    /\ LET r == copy(Deref(1))
       IN  IF r.err # "ok" THEN Ends(r.err)
           ELSE /\ mem' = [mem EXCEPT ![Alloc(mem)] =
                                          [live |-> TRUE, cells |-> r.hash.entries]]
                /\ tab' = [tab EXCEPT ![2] = [entries |-> Alloc(mem),
                                              nentries |-> r.hash.nentries,
                                              size |-> r.hash.size]]
                /\ last' = Called("copy", 1, 0)
                /\ UNCHANGED <<iter, hsel, seen, status, made>>

\* destroy(hash) on the table of handle p; an iterator over it is dropped
Destroy(p) ==
    /\ status = "ok"
    /\ IsTable(p)
    /\ mem' = [mem EXCEPT ![tab[p].entries] = FreeBlock]
    /\ tab' = [tab EXCEPT ![p] = NoTable]
    /\ iter' = IF iter.hash = p THEN NoIter ELSE iter
    /\ last' = Called("destroy", p, 0)
    /\ UNCHANGED <<hsel, seen, status, made>>

\* iterator_init(hash, &iter) on the table of handle p
IteratorInit(p) ==
    /\ status = "ok"
    /\ IsTable(p)
    /\ iter' = iterator_init(p)
    /\ last' = Called("iterator_init", p, 0)
    /\ seen' = <<>>
    /\ UNCHANGED <<mem, tab, hsel, status, made>>

\* iterator_next(&iter, &outkey, &outval); with track, what it returned is
\* appended to seen
IteratorNext(track) ==
    /\ status = "ok"
    /\ iter.hash # NULL
    /\ LET r == iterator_next(Deref(iter.hash), iter)
       IN  /\ iter' = r.iter
           /\ last' = Called("iterator_next", iter.hash, r.ret)
           /\ seen' = IF track /\ r.ret = 1
                      THEN Append(seen, <<r.outkey, r.outval>>)
                      ELSE seen
    /\ UNCHANGED <<mem, tab, hsel, status, made>>

\* iterator_remove(&iter), called while last_entry is on a valid slot: the
\* entry iterator_next returned (struct iterator: "points to last entry
\* returned by _next")
IteratorRemove ==
    /\ status = "ok"
    /\ iter.hash # NULL
    /\ iter.last_entry >= 0
    /\ Deref(iter.hash).entries[iter.last_entry].valid = 1
    /\ LET r == iterator_remove(Deref(iter.hash), iter)
       IN  IF r.err # "ok" THEN Ends(r.err)
           ELSE /\ mem' = MemAfter(iter.hash, r.hash, r.rehashed)
                /\ tab' = TabAfter(iter.hash, r.hash, r.rehashed)
                /\ last' = Called("iterator_remove", iter.hash, 0)
                /\ UNCHANGED <<iter, hsel, seen, status, made>>

\* the iterator goes out of use
IteratorDrop ==
    /\ status = "ok"
    /\ iter.hash # NULL
    /\ iter' = NoIter
    /\ seen' = <<>>
    /\ UNCHANGED <<mem, tab, hsel, last, status, made>>

----------------------------------------------------------------------------
(* Specifications *)

\* One table, every call that changes it, and an iterator over it; a copy is
\* made and destroyed again.
Next ==
    \/ /\ ~IsTable(2)
       /\ \/ \E k \in Keys : Put(1, k, ValueOf(k, 1))
          \/ \E k \in Keys : Remove(1, k)
          \/ Clear(1)
          \/ IteratorInit(1)
          \/ IteratorNext(FALSE)
          \/ IteratorRemove
    \/ Copy
    \/ Destroy(2)

Spec == Init /\ [][Next]_vars

\* One table as a map: keys that are equal and different objects, and keys
\* stored with two values.
NextMap ==
    \/ \E k \in Keys : \E v \in Values(k) : Put(1, k, v)
    \/ \E k \in Keys : Remove(1, k)
    \/ Clear(1)

SpecMap == Init /\ [][NextMap]_vars

\* A table is built, copied, and then one of the two tables is changed by one
\* call, before the copy is destroyed.
NextCopy ==
    \/ /\ ~IsTable(2)
       /\ \/ \E k \in PlainKeys(MaxKeyId) : Put(1, k, ValueOf(k, 1))
          \/ \E k \in PlainKeys(MaxKeyId) : Remove(1, k)
    \/ Copy
    \/ /\ IsTable(2)
       /\ last.op = "copy"
       /\ \E p \in Handles :
             \/ \E k \in PlainKeys(MaxKeyId) : \E v \in Values(k) : Put(p, k, v)
             \/ \E k \in PlainKeys(MaxKeyId) : Remove(p, k)
             \/ Clear(p)
    \/ Destroy(2)

SpecCopy == Init /\ [][NextCopy]_vars

\* A table is built, and then iterated over from beginning to end without
\* being changed during the pass.
NextIter ==
    \/ /\ iter.hash = NULL
       /\ \/ \E k \in Keys : Put(1, k, ValueOf(k, 1))
          \/ \E k \in Keys : Remove(1, k)
          \/ IteratorInit(1)
    \/ IteratorNext(TRUE)
    \/ IteratorDrop

SpecIter == Init /\ [][NextIter]_vars

\* The default table of create(), filled with pairwise distinct keys, in the
\* order of their ids.
NextDefault ==
    \E k \in DefaultKeys : \E v \in Values(k) :
        /\ k.id = tab[1].size + 1
        /\ Put(1, k, v)

SpecDefault == InitDefault /\ [][NextDefault]_vars

\* A table is built, and then iterated over; during the pass, entries that
\* iterator_next has just returned are removed with iterator_remove.
NextIterRemove ==
    \/ /\ iter.hash = NULL
       /\ \/ \E k \in Keys : Put(1, k, ValueOf(k, 1))
          \/ \E k \in Keys : Remove(1, k)
          \/ IteratorInit(1)
    \/ IteratorNext(TRUE)
    \/ /\ last.op = "iterator_next"
       /\ last.ret = 1
       /\ IteratorRemove
    \/ IteratorDrop

SpecIterRemove == Init /\ [][NextIterRemove]_vars

\* One table that is looked into: put, remove and get, of keys that are in
\* the table and of keys that are not.
NextLookup ==
    \/ \E k \in Keys : Put(1, k, ValueOf(k, 1))
    \/ \E k \in Keys : Remove(1, k)
    \/ \E k \in Keys : Get(1, k)

SpecLookup == Init /\ [][NextLookup]_vars

\* A table is made by create_capacity, of a capacity that is small or one
\* that overflows an int; pairwise distinct keys are put, in the order of
\* their ids; a copy is made and destroyed.
NextCapacity ==
    \/ \E c \in Capacities : CreateCapacity(c)
    \/ \E k \in CapacityKeys : \E v \in Values(k) :
           /\ IsTable(1)
           /\ k.id = tab[1].size + 1
           /\ Put(1, k, v)
    \/ Copy
    \/ Destroy(2)

SpecCapacity == InitNone /\ [][NextCapacity]_vars

----------------------------------------------------------------------------
(* What the claims are stated with *)

ValidSlots(hash) == {i \in 0 .. hash.nentries - 1 : hash.entries[i].valid = 1}

\* the slot a probe for key starts at
Home(hash, key) == BitAnd(TKEYHASH(key), hash.nentries - 1)

\* every slot from the home slot of the key in slot i up to slot i, going
\* forward with wraparound, is valid
ProbeReaches(hash, i) ==
    LET home == Home(hash, hash.entries[i].key)
        d == (i - home + hash.nentries) % hash.nentries
    IN  \A s \in 0 .. d - 1 : hash.entries[(home + s) % hash.nentries].valid = 1

\* some entry sits before its home slot: its run wraps around the end of the
\* array
WrappedRun(hash) ==
    \E i \in ValidSlots(hash) : Home(hash, hash.entries[i].key) > i

\* the key object stored under a key equal to k
StoredKey(hash, k) ==
    hash.entries[CHOOSE i \in ValidSlots(hash) :
                     TKEYEQUAL(hash.entries[i].key, k)].key

Found(v) == [ret |-> 1, value |-> v, err |-> "ok"]
NotFound == [ret |-> 0, value |-> 0, err |-> "ok"]

\* the smallest power of two >= 4 * n, and at least 8
GrowthTarget(n) ==
    CHOOSE c \in Pow2 :
        /\ c >= 4 * n /\ c >= 8
        /\ \A d \in Pow2 : (d >= 4 * n /\ d >= 8) => c <= d

\* a table of n slots as calloc leaves it
Fresh(n) == [entries |-> [i \in 0 .. n - 1 |-> ZeroEntry], nentries |-> n, size |-> 0]

StatusOk == status = "ok"

----------------------------------------------------------------------------
(* C1: In every state reached by create_capacity, put (rehashing or not),
   remove, iterator_remove and clear, the linear probe that starts at
   hash(key) & (nentries - 1) and advances by one with wraparound reaches the
   slot of every stored key before it meets an invalid slot. *)
C1_ProbeReachable ==
    \A p \in Handles :
        IsTable(p) =>
            \A i \in ValidSlots(Deref(p)) : ProbeReaches(Deref(p), i)

\* a remove has put followers back, and an entry sits in a run that wraps
\* around the end of the array
C1_Witness ==
    /\ last.op = "remove" /\ last.ret = 1 /\ last.size >= 3
    /\ WrappedRun(Deref(1))

(* C4: After every completed call (create_capacity, put, remove,
   iterator_remove, clear, copy) size equals the number of valid slots, and
   0 <= size < nentries; size is the number of keys get finds. *)
C4_SizeAccounting ==
    \A p \in Handles :
        IsTable(p) =>
            LET h == Deref(p)
            IN  /\ h.size = Cardinality(ValidSlots(h))
                /\ 0 <= h.size /\ h.size < h.nentries
                /\ h.size = Cardinality({i \in 1 .. MaxKeyId :
                                            get(h, MkKey(i, 0)).ret = 1})

\* iterator_remove has taken an entry out of a table of four, and put
\* followers back across the end of the array
C4_Witness ==
    /\ last.op = "iterator_remove" /\ last.size = 4
    /\ tab[1].size = 3
    /\ WrappedRun(Deref(1))

(* C5: After every completed call nentries >= 2 * size: a put that leaves
   nentries < 2 * size behind its insertion has rehashed when it returns. *)
C5_LoadFactor ==
    \A p \in Handles :
        IsTable(p) => tab[p].nentries >= THASH_FACTOR_CRITICAL * tab[p].size

\* the put of a fifth key into 8 slots has returned, with the table rehashed
C5_Witness ==
    /\ last.op = "put" /\ last.ret = 0
    /\ last.nentries = 8 /\ last.size = 4
    /\ tab[1].nentries > 8 /\ tab[1].size = 5

(* C6: In every state reached by put, remove, iterator_remove, clear and copy
   no two valid slots hold keys that TKEYEQUAL judges equal. *)
C6_KeyUnique ==
    \A p \in Handles :
        IsTable(p) =>
            LET h == Deref(p)
            IN  \A i, j \in ValidSlots(h) :
                    i # j => ~TKEYEQUAL(h.entries[i].key, h.entries[j].key)

\* a put of a key equal to a stored key (another object) has returned 1, with
\* other keys in the table
C6_Witness ==
    /\ last.op = "put" /\ last.ret = 1 /\ last.size >= 3
    /\ \E i \in ValidSlots(Deref(1)) : Deref(1).entries[i].key.tag = 1

----------------------------------------------------------------------------
(* C2: put is a map update, whether or not it rehashes: after put(k, v),
   get(k) returns v and every other key is found as before, with its value;
   if k was absent put returns 0 and size grows by 1; if k was present put
   returns 1, reports the stored key and value through oldkey and oldvalue,
   and size is unchanged. *)
PutPost(k, v) ==
    LET pre == Deref(1)
        post == Deref(1)'
        r == put(pre, k, v)
        g == get(pre, k)
    IN  /\ get(post, k) = Found(v)
        /\ \A k2 \in Keys : ~TKEYEQUAL(k2, k) => get(post, k2) = get(pre, k2)
        /\ g.ret = 0 =>
               /\ r.ret = 0 /\ last'.ret = 0
               /\ post.size = pre.size + 1
        /\ g.ret = 1 =>
               /\ r.ret = 1 /\ last'.ret = 1
               /\ r.oldkey = StoredKey(pre, k)
               /\ r.oldvalue = g.value
               /\ post.size = pre.size

C2_PutIsMapUpdate ==
    [][\A k \in Keys : \A v \in Values(k) :
           Put(1, k, v) => (status' = "ok" /\ PutPost(k, v))]_vars

\* the put of a fifth key has rehashed 8 slots into 32, and the five keys are
\* found
C2_Witness ==
    /\ last.op = "put" /\ last.ret = 0 /\ last.nentries = 8
    /\ tab[1].nentries = 32
    /\ \A i \in 1 .. 5 : get(Deref(1), MkKey(i, 0)).ret = 1

(* C3: remove of a present key is a map deletion, also inside a run of
   colliding entries that wraps around the end of the array: it returns 1 and
   reports the stored key and value, afterwards get(k) is not-found, size is
   one less, and every other key is found as before, with its value. *)
RemovePost(k) ==
    LET pre == Deref(1)
        post == Deref(1)'
        r == remove(pre, k)
    IN  /\ r.ret = 1 /\ last'.ret = 1
        /\ r.oldkey = StoredKey(pre, k)
        /\ r.oldvalue = get(pre, k).value
        /\ get(post, k) = NotFound
        /\ post.size = pre.size - 1
        /\ \A k2 \in Keys : ~TKEYEQUAL(k2, k) => get(post, k2) = get(pre, k2)

C3_RemoveIsMapDelete ==
    [][\A k \in Keys :
           (Remove(1, k) /\ get(Deref(1), k).ret = 1)
               => (status' = "ok" /\ RemovePost(k))]_vars

\* a key has been removed from a run of four colliding entries in slots
\* 6, 7, 0, 1 of 8, and the entry left in slot 0 has its home in slot 6
C3_Witness ==
    /\ last.op = "remove" /\ last.ret = 1
    /\ last.nentries = 8 /\ last.size = 4
    /\ hsel = 1
    /\ Deref(1).entries[0].valid = 1
    /\ Home(Deref(1), Deref(1).entries[0].key) = 6

(* C8: clear leaves every slot invalid and size 0, so no key is found any
   more; nentries and the array are the ones from before the call; the
   cleared table takes puts as a fresh table of that many slots does. *)
ClearPost ==
    LET pre == Deref(1)
        post == Deref(1)'
    IN  /\ ValidSlots(post) = {}
        /\ post.size = 0
        /\ \A k \in Keys : get(post, k) = NotFound
        /\ post.nentries = pre.nentries
        /\ tab'[1].entries = tab[1].entries
        /\ \A k \in Keys : \A v \in Values(k) :
               put(post, k, v) = put(Fresh(pre.nentries), k, v)

C8_ClearEmpties == [][Clear(1) => (status' = "ok" /\ ClearPost)]_vars

\* a table grown to 32 slots and holding three keys or more has been cleared
C8_Witness ==
    /\ last.op = "clear" /\ last.size >= 3 /\ last.nentries = 32
    /\ tab[1].size = 0

(* C7: copy returns a new table with the key -> value mapping and the size of
   the source, with the smallest power of two >= 4 * size (at least 8) as its
   nentries; the source's slots, size and nentries are unchanged; a later
   call on either table does not change the other. *)
CopyPost ==
    LET src == Deref(1)
        new == Deref(2)'
    IN  /\ IsTable(2)'
        /\ \A k \in Keys : get(new, k) = get(src, k)
        /\ new.size = src.size
        /\ new.nentries = GrowthTarget(src.size)
        /\ Deref(1)' = src
        /\ tab'[1] = tab[1]
        /\ tab'[2].entries # tab'[1].entries

\* the step is a put, remove or clear on the table of handle p
CallOn(p) == last'.hnd = p /\ last'.op \in {"put", "remove", "clear"}

C7_Copy ==
    [][/\ Copy => (status' = "ok" /\ CopyPost)
       /\ \A p, q \in Handles :
              (p # q /\ IsTable(p) /\ IsTable(q) /\ CallOn(p))
                  => (IsTable(q)' /\ Deref(q)' = Deref(q))]_vars

\* the copy of a 32-slot table has fewer slots, and a put into the copy has
\* made the two tables differ
C7_Witness ==
    /\ IsTable(2)
    /\ last.op = "put" /\ last.hnd = 2 /\ last.ret = 0
    /\ tab[1].nentries = 32 /\ tab[2].nentries < 32
    /\ tab[2].size = tab[1].size + 1

(* C9: On a table that is not changed during the pass, the calls of
   iterator_next after iterator_init return the key and value of every valid
   slot once, in increasing order of the slots, then return 0, and go on
   returning 0; the number of entries returned is size. *)

\* the (key, value) pairs of the valid slots 0 .. n - 1, in slot order
RECURSIVE SlotPairs(_, _)
SlotPairs(hash, n) ==
    IF n = 0 THEN <<>>
    ELSE IF hash.entries[n - 1].valid = 1
         THEN Append(SlotPairs(hash, n - 1),
                     <<hash.entries[n - 1].key, hash.entries[n - 1].value>>)
         ELSE SlotPairs(hash, n - 1)

C9_IterationPass ==
    iter.hash # NULL =>
        LET h == Deref(iter.hash)
        IN  /\ seen = SlotPairs(h, iter.last_entry + 1)
            /\ (last.op = "iterator_next" /\ last.ret = 1) =>
                   h.entries[iter.last_entry].valid = 1
            /\ (last.op = "iterator_next" /\ last.ret = 0) =>
                   /\ seen = SlotPairs(h, h.nentries)
                   /\ Len(seen) = h.size
                   /\ iterator_next(h, iter).ret = 0
                   /\ iterator_next(h, iter).iter = iter

\* a pass over a table of three entries or more, in a run that wraps around
\* the end of the array, has come to its end
C9_Witness ==
    /\ iter.hash # NULL
    /\ last.op = "iterator_next" /\ last.ret = 0
    /\ Len(seen) >= 3
    /\ WrappedRun(Deref(1))

(* C10: create() gives nentries 32 and size 0; nentries stays 32 while the
   1st to the 16th distinct key are put; the put of the 17th key rehashes to
   nentries 128 within the call, after which size is 17 and the 17 keys are
   found. *)
C10_DefaultGrowth ==
    LET h == Deref(1)
    IN  /\ last.op = "create" => (h.nentries = 32 /\ h.size = 0)
        /\ h.size <= 16 => h.nentries = 32
        /\ h.size >= 17 => h.nentries = 128
        /\ (last.op = "put" /\ h.size = 17) => last.nentries = 32
        /\ last.op = "put" => (last.ret = 0 /\ h.size = last.size + 1)
        /\ \A i \in 1 .. h.size :
               /\ get(h, MkKey(i, 0)).ret = 1
               /\ get(h, MkKey(i, 0)).value \in Values(MkKey(i, 0))
        /\ Cardinality({i \in 1 .. MaxDefaultKeyId :
                           get(h, MkKey(i, 0)).ret = 1}) = h.size

\* the 17th key has been put
C10_Witness ==
    /\ last.op = "put" /\ last.size = 16 /\ last.nentries = 32
    /\ tab[1].size = 17 /\ tab[1].nentries = 128
    /\ \A i \in 1 .. 17 : get(Deref(1), MkKey(i, 0)).ret = 1

----------------------------------------------------------------------------
(* C11: Whenever a put triggers a rehash, nentries after that put is the
   smallest power of two >= 4 * L with a floor of 8, where L is the size
   right after the triggering insert, although the code passes size + 1 to
   create_capacity. *)
C11_GrowthTarget ==
    [][\A k \in CapacityKeys : \A v \in Values(k) :
           (Put(1, k, v) /\ put(Deref(1), k, v).rehashed)
               => /\ status' = "ok"
                  /\ tab'[1].size = tab[1].size + 1
                  /\ tab'[1].nentries = GrowthTarget(tab'[1].size)]_vars

\* the put of the 9th key has rehashed the 16 slots create_capacity gave
C11_Witness ==
    /\ last.op = "put" /\ last.nentries = 16 /\ last.size = 8
    /\ made.nentries = 16
    /\ tab[1].nentries = 64 /\ tab[1].size = 9

(* C12: In every reachable state, for tables made by create,
   create_capacity(c) with any c >= 0, copy, or grown by rehash, nentries is
   a power of two and at least 8, so that masking with nentries - 1 gives the
   index that the remainder modulo nentries gives. *)
C12_CapacityPowerOfTwo ==
    \A p \in Handles :
        IsTable(p) =>
            LET n == tab[p].nentries
            IN  /\ n \in Pow2
                /\ n >= 8
                /\ \A k \in CapacityKeys :
                       BitAndBits(TKEYHASH(k), n - 1) = TKEYHASH(k) % n
                /\ \A i \in 0 .. n - 1 :
                       BitAndBits(i + 1, n - 1) = (i + 1) % n

\* a table made with a capacity that overflows has been grown by a rehash,
\* and copied
C12_Witness ==
    /\ made.capacity \in BigCapacities
    /\ tab[1].nentries > made.nentries
    /\ IsTable(2) /\ tab[2].nentries = 8

(* C13: remove, and get, of a key that is not in the table returns 0 and
   leaves the table unchanged: every slot, size, nentries and the array are
   as before, no entry is moved, and no assertion is hit. *)

\* no valid slot holds a key equal to k
Absent(hash, k) ==
    \A i \in ValidSlots(hash) : ~TKEYEQUAL(hash.entries[i].key, k)

C13_AbsentKeyNoChange ==
    [][\A k \in Keys :
           (Absent(Deref(1), k) /\ (Remove(1, k) \/ Get(1, k)))
               => /\ status' = "ok"
                  /\ last'.ret = 0
                  /\ remove(Deref(1), k).oldvalue = 0
                  /\ get(Deref(1), k).value = 0
                  /\ tab' = tab
                  /\ mem' = mem]_vars

\* a key that is not in the table has been removed from a table in which a
\* run of four entries wraps around the end of the array
C13_Witness ==
    /\ last.op = "remove" /\ last.ret = 0 /\ last.size = 4
    /\ tab[1].size = 4
    /\ WrappedRun(Deref(1))

(* C14: create_capacity(c) builds a table into which c pairwise distinct
   keys can be put with no rehash: as long as no more than c keys have been
   put, nentries is the one the table was created with, for every c >= 0. *)
C14_CapacityHoldsKeys ==
    (IsTable(1) /\ tab[1].size <= made.capacity)
        => tab[1].nentries = made.nentries

(* C15: iterator_remove is equivalent to remove by key: from any reachable
   state in which last_entry is on a valid slot holding key k,
   iterator_remove leaves the table (every slot, size, nentries) that
   remove(k) leaves from that state, although it decrements size only after
   the followers are reinserted. *)
C15_IteratorRemoveIsRemove ==
    [][IteratorRemove =>
           LET pre == Deref(iter.hash)
               k == pre.entries[iter.last_entry].key
               r == remove(pre, k)
           IN  /\ status' = "ok"
               /\ r.err = "ok" /\ r.ret = 1
               /\ Deref(iter.hash)' = r.hash
               /\ tab'[iter.hash].entries = tab[iter.hash].entries]_vars

\* iterator_remove has taken the entry in the last slot out of a table of
\* four, and a follower from the beginning of the array has moved into the
\* last slot
C15_Witness ==
    /\ last.op = "iterator_remove" /\ last.size = 4
    /\ iter.last_entry = tab[1].nentries - 1
    /\ Deref(1).entries[iter.last_entry].valid = 1

(* C16: During one iteration in which iterator_remove calls are interleaved
   with iterator_next calls (each iterator_remove applied to the entry just
   returned), no entry is returned by iterator_next more than once, also
   when the run of followers wraps around the end of the array. *)
C16_NoEntryTwice ==
    \A i, j \in 1 .. Len(seen) :
        i # j => ~TKEYEQUAL(seen[i][1], seen[j][1])

(* C17: The internal assertions are unreachable: every reinsertion made by
   the rehash inside put, by copy, and by the follower walks of remove and
   iterator_remove lands on an invalid slot and put returns 0, so no
   assert(0) is executed in any reachable state. *)
C17_NoAssert == status # "assert"

\* a table that a rehash has grown, and from which entries have been removed
\* with their followers put back, has been copied
C17_Witness ==
    /\ status = "ok"
    /\ last.op = "copy"
    /\ tab[1].nentries = 32 /\ tab[1].size = 3
    /\ tab[2].nentries = 16 /\ tab[2].size = 3

(* C18: Reinsertion never grows the table: the growth check of the put that
   remove, iterator_remove and the rehash loop call never fires during them;
   remove and iterator_remove leave nentries (and the array) unchanged, and a
   put that rehashes allocates exactly one array. *)
C18_ReinsertionNeverGrows ==
    [][/\ \A k \in Keys :
              Remove(1, k) =>
                  /\ ~remove(Deref(1), k).rehashed
                  /\ tab'[1].nentries = tab[1].nentries
                  /\ tab'[1].entries = tab[1].entries
       /\ IteratorRemove =>
              /\ ~iterator_remove(Deref(iter.hash), iter).rehashed
              /\ tab'[1].nentries = tab[1].nentries
              /\ tab'[1].entries = tab[1].entries
       /\ \A k \in Keys :
              Put(1, k, ValueOf(k, 1)) =>
                  LET r == put(Deref(1), k, ValueOf(k, 1))
                  IN  r.reallocs = (IF r.rehashed THEN 1 ELSE 0)]_vars

\* a remove has put back three followers into an array that is half full
C18_Witness ==
    /\ last.op = "remove" /\ last.ret = 1
    /\ last.nentries = 8 /\ last.size = 4
    /\ hsel = 1
    /\ tab[1].nentries = 8 /\ tab[1].size = 3
    /\ Deref(1).entries[6].valid = 1 /\ Deref(1).entries[0].valid = 1

(* C19: Every operation terminates: in every reachable state the probe loops
   of get, get_volatile, put and remove stop at a matching key or an invalid
   slot after at most nentries steps, and the follower walks of remove and
   iterator_remove stop at an invalid slot after visiting each slot of the
   run once: no follower is put back at or beyond the slot the walk stops
   at. *)

\* the number of valid slots in a row after slot i, going forward with
\* wraparound
RECURSIVE RunAfter(_, _, _)
RunAfter(hash, i, n) ==
    IF n >= hash.nentries \/ hash.entries[(i + 1 + n) % hash.nentries].valid = 0
    THEN n
    ELSE RunAfter(hash, i, n + 1)

C19_Terminates ==
    /\ status # "hang"
    /\ \A p \in Handles :
           IsTable(p) =>
               LET h == Deref(p)
               IN  /\ \A k \in Keys :
                          /\ get(h, k).err = "ok"
                          /\ get_volatile(h, k).err = "ok"
                          /\ put(h, k, ValueOf(k, 1)).err = "ok"
                          /\ remove(h, k).err = "ok"
                   /\ \A i \in ValidSlots(h) :
                          LET r == remove(h, h.entries[i].key)
                              ir == iterator_remove(h, [hash |-> p, last_entry |-> i])
                              e == (i + 1 + RunAfter(h, i, 0)) % h.nentries
                          IN  /\ r.err = "ok" /\ r.walked = RunAfter(h, i, 0)
                              /\ r.hash.entries[e].valid = 0
                              /\ ir.err = "ok" /\ ir.steps = RunAfter(h, i, 0)
                              /\ ir.hash.entries[e].valid = 0

\* a table in which four colliding entries lie in a run that wraps around
\* the end of the array has been looked into
C19_Witness ==
    /\ last.op = "get" /\ last.ret = 0
    /\ hsel = 1
    /\ tab[1].nentries = 8 /\ tab[1].size = 4
    /\ RunAfter(Deref(1), 6, 0) = 3

(* C20: The capacity of a table is monotone and grows only by quadrupling:
   over any sequence of put, remove, iterator_remove and clear, nentries
   never decreases, changes only inside a put that inserts a new key, and
   then becomes 4 times what it was; the rehash fires exactly when size
   becomes nentries / 2 + 1. *)
C20_CapacityQuadruples ==
    LET old == last.nentries
        new == tab[last.hnd].nentries
    IN  last.op \in {"put", "remove", "iterator_remove", "clear"} =>
            /\ new >= old
            /\ new # old =>
                   /\ last.op = "put" /\ last.ret = 0
                   /\ new = 4 * old
                   /\ tab[last.hnd].size = old \div 2 + 1
            /\ (last.op = "put" /\ last.ret = 0
                    /\ tab[last.hnd].size = old \div 2 + 1) => new # old

\* a table that a put has grown from 8 to 32 slots has been emptied by
\* iterator_remove, and keeps its 32 slots
C20_Witness ==
    /\ last.op = "iterator_remove"
    /\ last.nentries = 32 /\ last.size = 1
    /\ tab[1].nentries = 32 /\ tab[1].size = 0

====
